---- MODULE Spec2Model ----
(***************************************************************************)
(* Model of src/core/new_trainer.py: do_train, one epoch of knowledge      *)
(* distillation training.  A tensor is modelled by its value together with *)
(* its derivative with respect to the student's parameter (gs) and with    *)
(* respect to the teacher's parameter (gt), which is what autograd's graph *)
(* yields at backward time.  Python list index idx is sequence index       *)
(* idx + 1.  Losses after the blend are kept in units of 1/AlphaDen so     *)
(* that alpha = AlphaNum/AlphaDen stays exact over the integers.           *)
(***************************************************************************)
EXTENDS Integers, Sequences, FiniteSets, TLC

\* cfg.LOSS.NUM_STAGES of the modelled run
NumStages == 2
\* len(data_loader) of the modelled run
NumBatches == 2
\* cfg.PRINT_FREQ ranges over 1..MaxPrintFreq
MaxPrintFreq == 2

\* alpha = 0.5 = AlphaNum / AlphaDen
AlphaNum == 1
AlphaDen == 2

VARIABLES
    fp16,               \* the fp16 argument
    printFreq,          \* cfg.PRINT_FREQ
    rank,               \* cfg.RANK
    withLoss,           \* which components loss_factory computes, per stage
    pc,                 \* position in do_train
    i,                  \* batch index of enumerate(data_loader)
    model,              \* the student: parameter w, accumulated grad, mode
    teacher,            \* the teacher: parameter w, accumulated grad, mode
    batch,              \* (images, heatmaps, masks, joints) of the iteration
    student_outputs, teacher_outputs,
    student_losses,     \* [heatmaps, push, pull] lists of the student
    teacher_losses,     \* [heatmaps, push, pull] lists of the teacher
    student_loss, teacher_loss, loss,
    meters,             \* .val of heatmaps/push/pull_loss_meter per stage
    backpropagated,     \* the loss handed to the last backward call
    calls,              \* calls made so far in iteration i, in order
    trainCalls,         \* number of model.train() calls
    logged,             \* batch indices passed to logger.info
    writer,             \* add_scalar calls received by writer_dict['writer']
    writer_dict,        \* writer_dict['train_global_steps']
    savedImages         \* prefixes handed to save_debug_images

vars == <<fp16, printFreq, rank, withLoss, pc, i, model, teacher, batch,
          student_outputs, teacher_outputs, student_losses, teacher_losses,
          student_loss, teacher_loss, loss, meters, backpropagated, calls,
          trainCalls, logged, writer, writer_dict, savedImages>>

Stages == 1..NumStages

----------------------------------------------------------------------------
\* Values: None, a Python number, or a tensor with its two derivatives.

None == [kind |-> "None", v |-> 0, gs |-> 0, gt |-> 0]

Number(n) == [kind |-> "number", v |-> n, gs |-> 0, gt |-> 0]

Tensor(val, ds, dt) == [kind |-> "tensor", v |-> val, gs |-> ds, gt |-> dt]

KindOf(a, b) == IF a.kind = "tensor" \/ b.kind = "tensor" THEN "tensor" ELSE "number"

\* a + b
Add(a, b) == [kind |-> KindOf(a, b), v |-> a.v + b.v,
              gs |-> a.gs + b.gs, gt |-> a.gt + b.gt]

\* k * a for a Python number k
Scale(k, a) == [kind |-> a.kind, v |-> k * a.v, gs |-> k * a.gs, gt |-> k * a.gt]

----------------------------------------------------------------------------
\* The collaborators handed to do_train.

\* batch n of data_loader
DataLoader(n) == [images |-> n + 1, heatmaps |-> n, joints |-> n + 2]

\* model(images): one output per stage, differentiable in the student's w
StudentForward(m, images) ==
    [k \in Stages |-> Tensor(m.w * images + (k - 1), images, 0)]

\* teacher(images): called with gradient tracking on, so the outputs are
\* differentiable in the teacher's w whenever its parameters require grad
TeacherForward(t, images) ==
    [k \in Stages |-> Tensor(t.w * images + (k - 1), 0,
                             IF t.requires_grad THEN images ELSE 0)]

HeatmapsLoss(o, b) ==
    Tensor((o.v - b.heatmaps) * (o.v - b.heatmaps),
           2 * (o.v - b.heatmaps) * o.gs, 2 * (o.v - b.heatmaps) * o.gt)

PushLoss(o, b) == Tensor(o.v - b.joints, o.gs, o.gt)

PullLoss(o, b) == Tensor(b.joints * o.v, b.joints * o.gs, b.joints * o.gt)

\* loss_factory(outputs, heatmaps, masks, joints): three lists, a component
\* the factory does not compute is None.  It sees only the outputs it is given.
LossFactory(outputs, b) ==
    [heatmaps |-> [k \in Stages |-> IF withLoss[k].heatmaps
                                    THEN HeatmapsLoss(outputs[k], b) ELSE None],
     push     |-> [k \in Stages |-> IF withLoss[k].push
                                    THEN PushLoss(outputs[k], b) ELSE None],
     pull     |-> [k \in Stages |-> IF withLoss[k].pull
                                    THEN PullLoss(outputs[k], b) ELSE None]]

----------------------------------------------------------------------------
\* Lines 58-89: the accumulation loops.

\* a sum that starts from what the previous iteration left in student_loss
LossCarriedOver == student_loss

\* student_loss = 0 / teacher_loss = 0 before the loop
LossStart == Number(0)

\* body of the loop for stage k, applied to the running sum acc
StageBody(acc, ls, k) ==
    IF ls.heatmaps[k].kind # "None"
    THEN LET a1 == Add(acc, ls.heatmaps[k])
             a2 == IF ls.push[k].kind # "None" THEN Add(a1, ls.push[k]) ELSE a1
             a3 == IF ls.pull[k].kind # "None" THEN Add(a2, ls.pull[k]) ELSE a2
         IN  a3
    ELSE acc

RECURSIVE StageLoop(_, _, _)
\* for idx in range(cfg.LOSS.NUM_STAGES), from stage k on
StageLoop(acc, ls, k) ==
    IF k > NumStages THEN acc ELSE StageLoop(StageBody(acc, ls, k), ls, k + 1)

\* meter .val after the student loop: updated only where the update is reached
MeterVals(old, ls) ==
    [heatmaps |-> [k \in Stages |-> IF ls.heatmaps[k].kind # "None"
                                    THEN ls.heatmaps[k].v ELSE old.heatmaps[k]],
     push     |-> [k \in Stages |-> IF ls.heatmaps[k].kind # "None"
                                       /\ ls.push[k].kind # "None"
                                    THEN ls.push[k].v ELSE old.push[k]],
     pull     |-> [k \in Stages |-> IF ls.heatmaps[k].kind # "None"
                                       /\ ls.pull[k].kind # "None"
                                    THEN ls.pull[k].v ELSE old.pull[k]]]

\* loss = student_loss * alpha + (1-alpha) * teacher_loss, in units of 1/AlphaDen
Blend(s, t) == Add(Scale(AlphaNum, s), Scale(AlphaDen - AlphaNum, t))

\* i % cfg.PRINT_FREQ == 0 and cfg.RANK == 0
PrintCondition(n) == n % printFreq = 0 /\ rank = 0

----------------------------------------------------------------------------
StagePatterns == [heatmaps : BOOLEAN, push : BOOLEAN, pull : BOOLEAN]

NoLosses == [heatmaps |-> [k \in Stages |-> None],
             push     |-> [k \in Stages |-> None],
             pull     |-> [k \in Stages |-> None]]

\* the teacher module handed to do_train; whether its parameters require
\* grad is the caller's choice (True is the framework's default)
TeacherGiven(rg) == [w |-> 3, grad |-> 0, training |-> FALSE, requires_grad |-> rg]

Init ==
    /\ fp16 \in BOOLEAN
    /\ printFreq \in 1..MaxPrintFreq
    /\ rank \in {0, 1}
    /\ withLoss \in [Stages -> StagePatterns]
    /\ pc = "train"
    /\ i = 0
    /\ model = [w |-> 1, grad |-> 0, training |-> FALSE]
    /\ \E rg \in BOOLEAN : teacher = TeacherGiven(rg)
    /\ batch = DataLoader(0)
    /\ student_outputs = [k \in Stages |-> None]
    /\ teacher_outputs = [k \in Stages |-> None]
    /\ student_losses = NoLosses
    /\ teacher_losses = NoLosses
    /\ student_loss = Number(0)
    /\ teacher_loss = Number(0)
    /\ loss = Number(0)
    /\ meters = [heatmaps |-> [k \in Stages |-> 0],
                 push     |-> [k \in Stages |-> 0],
                 pull     |-> [k \in Stages |-> 0]]
    /\ backpropagated = None
    /\ calls = <<>>
    /\ trainCalls = 0
    /\ logged = {}
    /\ writer = {}
    /\ writer_dict = [train_global_steps |-> 0]
    /\ savedImages = {}

config == <<fp16, printFreq, rank, withLoss>>
emission == <<logged, writer, writer_dict, savedImages>>
iteration == <<batch, student_outputs, teacher_outputs, student_losses,
               teacher_losses, student_loss, teacher_loss, loss, meters>>

\* line 32: model.train()
Train ==
    /\ pc = "train"
    /\ model' = [model EXCEPT !.training = TRUE]
    /\ trainCalls' = trainCalls + 1
    /\ pc' = "loop"
    /\ UNCHANGED <<config, i, teacher, iteration, backpropagated, calls, emission>>

\* lines 35-54: next batch, both forward passes, both loss_factory calls
LoadBatch ==
    /\ pc = "loop"
    /\ i < NumBatches
    /\ LET b  == DataLoader(i)
           so == StudentForward(model, b.images)
           to == TeacherForward(teacher, b.images)
       IN  /\ batch' = b
           /\ student_outputs' = so
           /\ teacher_outputs' = to
           /\ student_losses' = LossFactory(so, b)
           /\ teacher_losses' = LossFactory(to, b)
    /\ calls' = <<"model", "teacher", "loss_factory", "loss_factory">>
    /\ pc' = "accumulate"
    /\ UNCHANGED <<config, i, model, teacher, student_loss, teacher_loss, loss,
                   meters, backpropagated, trainCalls, emission>>

\* lines 56-92: the two accumulation loops and the blend
Accumulate ==
    /\ pc = "accumulate"
    /\ LET s == StageLoop(LossStart, student_losses, 1)
           t == StageLoop(LossStart, teacher_losses, 1)
       IN  /\ student_loss' = s
           /\ teacher_loss' = t
           /\ loss' = Blend(s, t)
    /\ meters' = MeterVals(meters, student_losses)
    /\ pc' = "zero_grad"
    /\ UNCHANGED <<config, i, model, teacher, batch, student_outputs,
                   teacher_outputs, student_losses, teacher_losses,
                   backpropagated, calls, trainCalls, emission>>

\* line 94: optimizer.zero_grad(), over the parameters the optimizer holds
ZeroGrad ==
    /\ pc = "zero_grad"
    /\ model' = [model EXCEPT !.grad = 0]
    /\ calls' = Append(calls, "zero_grad")
    /\ pc' = "backward"
    /\ UNCHANGED <<config, i, teacher, iteration, backpropagated, trainCalls, emission>>

\* autograd: the derivative of l reaches every parameter in its graph
BackwardModel(m, l) == [m EXCEPT !.grad = m.grad + l.gs]

BackwardTeacher(t, l) ==
    IF t.requires_grad THEN [t EXCEPT !.grad = t.grad + l.gt] ELSE t

\* lines 95-96: optimizer.backward(loss)
OptimizerBackward ==
    /\ pc = "backward"
    /\ fp16
    /\ model' = BackwardModel(model, loss)
    /\ teacher' = BackwardTeacher(teacher, loss)
    /\ backpropagated' = loss
    /\ calls' = Append(calls, "optimizer.backward")
    /\ pc' = "step"
    /\ UNCHANGED <<config, i, iteration, trainCalls, emission>>

\* lines 95-96 when loss is the Python float 0.0: what optimizer.backward
\* does with a non-tensor is the optimizer's business; it may also raise
OptimizerBackwardRaises ==
    /\ pc = "backward"
    /\ fp16
    /\ loss.kind # "tensor"
    /\ calls' = Append(calls, "optimizer.backward")
    /\ pc' = "raised"
    /\ UNCHANGED <<config, i, model, teacher, iteration, backpropagated,
                   trainCalls, emission>>

\* lines 97-98: loss.backward() on a tensor
LossBackward ==
    /\ pc = "backward"
    /\ ~fp16
    /\ loss.kind = "tensor"
    /\ model' = BackwardModel(model, loss)
    /\ teacher' = BackwardTeacher(teacher, loss)
    /\ backpropagated' = loss
    /\ calls' = Append(calls, "loss.backward")
    /\ pc' = "step"
    /\ UNCHANGED <<config, i, iteration, trainCalls, emission>>

\* lines 97-98 when no heatmaps loss was added: loss is the float 0.0,
\* which has no attribute backward, so do_train ends with AttributeError
LossBackwardRaises ==
    /\ pc = "backward"
    /\ ~fp16
    /\ loss.kind # "tensor"
    /\ pc' = "raised"
    /\ UNCHANGED <<config, i, model, teacher, iteration, backpropagated, calls,
                   trainCalls, emission>>

\* line 99: optimizer.step()
Step ==
    /\ pc = "step"
    /\ model' = [model EXCEPT !.w = model.w - model.grad]
    /\ calls' = Append(calls, "step")
    /\ pc' = "print"
    /\ UNCHANGED <<config, i, teacher, iteration, backpropagated, trainCalls, emission>>

\* the add_scalar calls of lines 123-138; the heatmaps tag is formatted with i
Scalars(n, m, step) ==
    UNION {{[tag |-> "heatmaps_loss", stage |-> n, value |-> m.heatmaps[k], step |-> step],
            [tag |-> "push_loss", stage |-> k - 1, value |-> m.push[k], step |-> step],
            [tag |-> "pull_loss", stage |-> k - 1, value |-> m.pull[k], step |-> step]}
           : k \in Stages}

\* lines 105-149: log, scalars, global step, debug images
Emit ==
    /\ pc = "print"
    /\ PrintCondition(i)
    /\ logged' = logged \cup {i}
    /\ writer' = writer \cup Scalars(i, meters, writer_dict.train_global_steps)
    /\ writer_dict' = [writer_dict EXCEPT
                          !.train_global_steps = writer_dict.train_global_steps + 1]
    /\ savedImages' = savedImages \cup
                         {<<i, scale>> : scale \in 1..Len(student_outputs)}
    /\ calls' = calls \o <<"logger.info", "add_scalar", "save_debug_images">>
    /\ i' = i + 1
    /\ pc' = "loop"
    /\ UNCHANGED <<config, model, teacher, iteration, backpropagated, trainCalls>>

\* line 105 false: straight to the next batch
NoEmit ==
    /\ pc = "print"
    /\ ~PrintCondition(i)
    /\ i' = i + 1
    /\ pc' = "loop"
    /\ UNCHANGED <<config, model, teacher, iteration, backpropagated, calls,
                   trainCalls, emission>>

\* line 35: data_loader exhausted, do_train returns
Return ==
    /\ pc = "loop"
    /\ i = NumBatches
    /\ pc' = "done"
    /\ UNCHANGED <<config, i, model, teacher, iteration, backpropagated, calls,
                   trainCalls, emission>>

Next ==
    \/ Train
    \/ LoadBatch
    \/ Accumulate
    \/ ZeroGrad
    \/ OptimizerBackward
    \/ OptimizerBackwardRaises
    \/ LossBackward
    \/ LossBackwardRaises
    \/ Step
    \/ Emit
    \/ NoEmit
    \/ Return

Spec == Init /\ [][Next]_vars

----------------------------------------------------------------------------
\* Helpers of the properties below.

\* the backward call of iteration i has returned
BackwardDone == pc \in {"step", "print"}

\* the loops and the blend of iteration i have run
Accumulated == pc \in {"zero_grad", "backward", "step", "print", "raised"}

\* the iteration of some batch has ended, normally or by an exception
IterationOver == (pc \in {"loop", "done"} /\ i > 0) \/ pc = "raised"

\* index of the batch whose iteration ended last
LastBatch == IF pc = "raised" THEN i ELSE i - 1

\* the calls of the training step among the calls of the iteration
TrainingCalls ==
    SelectSeq(calls, LAMBDA c : c \in {"zero_grad", "optimizer.backward",
                                       "loss.backward", "step"})

RECURSIVE SumOver(_, _)
SumOver(S, f) ==
    IF S = {} THEN 0
    ELSE LET k == CHOOSE x \in S : TRUE IN f[k] + SumOver(S \ {k}, f)

\* what the components of one list triple add up to when a stage counts
\* only if its heatmaps loss is there
GatedTotal(ls, fld) ==
    SumOver(Stages,
            [k \in Stages |->
                IF ls.heatmaps[k].kind = "None" THEN 0
                ELSE ls.heatmaps[k][fld]
                     + (IF ls.push[k].kind = "None" THEN 0 ELSE ls.push[k][fld])
                     + (IF ls.pull[k].kind = "None" THEN 0 ELSE ls.pull[k][fld])])

\* what they add up to when every component that is not None counts
IndependentTotal(ls, fld) ==
    SumOver(Stages,
            [k \in Stages |->
                (IF ls.heatmaps[k].kind = "None" THEN 0 ELSE ls.heatmaps[k][fld])
                + (IF ls.push[k].kind = "None" THEN 0 ELSE ls.push[k][fld])
                + (IF ls.pull[k].kind = "None" THEN 0 ELSE ls.pull[k][fld])])

----------------------------------------------------------------------------
\* C1: in every iteration the loss handed to backward is
\* alpha * student_loss + (1 - alpha) * teacher_loss with alpha = 0.5, and
\* student_loss and teacher_loss are the sums of the components that the two
\* loss_factory calls of this same iteration returned (on this iteration's
\* outputs and batch); nothing of an earlier iteration is in them.
C1_BlendOfThisIteration ==
    /\ 2 * AlphaNum = AlphaDen
    /\ Accumulated =>
          /\ batch = DataLoader(i)
          /\ teacher_losses = LossFactory(TeacherForward(teacher, batch.images), batch)
          /\ \A fld \in {"v", "gs", "gt"} :
                /\ student_loss[fld] = GatedTotal(student_losses, fld)
                /\ teacher_loss[fld] = GatedTotal(teacher_losses, fld)
                \* in units of 1/AlphaDen
                /\ loss[fld] = AlphaNum * student_loss[fld]
                               + (AlphaDen - AlphaNum) * teacher_loss[fld]
    /\ pc \in {"zero_grad", "backward"} =>
          student_losses = LossFactory(StudentForward(model, batch.images), batch)
    /\ BackwardDone => backpropagated = loss

\* C1 witness: the second batch has been backpropagated, with a tensor loss
\* whose two halves differ and differ from the first batch's
C1_Witness ==
    /\ pc = "step" /\ i = 1
    /\ backpropagated.kind = "tensor"
    /\ student_loss.v # teacher_loss.v
    /\ student_loss.v # 0

\* C2: do_train never changes the teacher: its parameter, its accumulated
\* gradient and its mode stay what they were when it was handed in.
C2_TeacherUnchanged == teacher = TeacherGiven(teacher.requires_grad)

\* C3: the term through which the teacher enters the backpropagated loss
\* depends on the student's outputs: where the two models' outputs differ on
\* a stage whose loss is computed, its derivative with respect to the
\* student's parameter is not zero, so it changes the student's update.
C3_TeacherTermMovesStudent ==
    (/\ BackwardDone
     /\ teacher_loss.kind = "tensor"
     /\ \E k \in Stages : /\ teacher_losses.heatmaps[k].kind # "None"
                          /\ student_outputs[k].v # teacher_outputs[k].v)
    => (AlphaDen - AlphaNum) * teacher_loss.gs # 0

\* C4: for the batch of index n, the log message, the scalars, the global
\* step increment and the debug images happen exactly when
\* n % PRINT_FREQ = 0 and RANK = 0, and the training step of batch n is
\* performed whatever that condition is, before the emission.
C4_EmissionCadence ==
    IterationOver =>
        /\ (LastBatch \in logged) <=> PrintCondition(LastBatch)
        /\ (\E s \in savedImages : s[1] = LastBatch) <=> PrintCondition(LastBatch)
        /\ writer_dict.train_global_steps =
              Cardinality({n \in 0..LastBatch : PrintCondition(n)})
        /\ Len(TrainingCalls) = 3
        /\ \A n \in 1..Len(calls) : calls[n] = "logger.info" =>
              \E m \in 1..(n - 1) : calls[m] = "step"

\* What C4 comes to on the iterations that do not raise: emission exactly
\* under the print condition, after a complete training step.
C4_OnCompletedIterations ==
    /\ (pc \in {"loop", "done"} /\ i > 0) =>
          /\ (i - 1 \in logged) <=> PrintCondition(i - 1)
          /\ (\E s \in savedImages : s[1] = i - 1) <=> PrintCondition(i - 1)
          /\ Len(TrainingCalls) = 3
    /\ writer_dict.train_global_steps = Cardinality(logged)
    /\ \A n \in logged : PrintCondition(n) /\ n <= i

\* C5: every batch gets exactly one zero_grad, then one backward, then one
\* step, in that order, finished before the next forward pass, also when
\* every heatmaps loss is None; model.train() is called exactly once.
C5_OneTrainingStepPerBatch ==
    /\ pc # "train" => trainCalls = 1
    /\ IterationOver =>
          \/ TrainingCalls = <<"zero_grad", "optimizer.backward", "step">>
          \/ TrainingCalls = <<"zero_grad", "loss.backward", "step">>

\* C6: in each iteration exactly one of optimizer.backward(loss) (fp16) and
\* loss.backward() (not fp16) is called, never both and never neither, with
\* zero_grad before it and step after it in both modes.
C6_BackwardPathByFp16 ==
    IterationOver =>
        TrainingCalls = <<"zero_grad",
                          IF fp16 THEN "optimizer.backward" ELSE "loss.backward",
                          "step">>

\* C7: student_loss and teacher_loss are the sums over the stages of every
\* component that is not None, each component counting on its own.
C7_EveryComponentCounts ==
    Accumulated =>
        /\ student_loss.v = IndependentTotal(student_losses, "v")
        /\ teacher_loss.v = IndependentTotal(teacher_losses, "v")

====
